---- MODULE Spec2Model ----
(***************************************************************************)
(* Entrance/exit analytics: the crossing debouncer of app/geometry_utils.py,*)
(* the centroid processor of app/services/entrance_exit_engine.py and the   *)
(* polling threads of app/routes/entrance_exit.py.                          *)
(*                                                                          *)
(* Python dicts are functions whose DOMAIN is the set of keys; an Optional  *)
(* value is a set with at most one element ({} is None).  Timestamps are    *)
(* whole seconds.  Coordinates are Python floats: binary floating point with*)
(* round-to-nearest-even and gradual underflow, modelled here in a small    *)
(* format of Precision significant bits whose smallest positive value is    *)
(* 1/Unit; the integer n stands for the float n/Unit.                       *)
(*                                                                          *)
(* Every polling thread is a record with its position in polling_loop (pc)  *)
(* and its local variables.  A step of a thread runs polling_loop up to the *)
(* next access to a shared dict or to the database that another thread can  *)
(* precede: between reading a track's position and storing the new one a    *)
(* thread can be overtaken.                                                 *)
(* A thread inside should_count_crossing is a record too, with the steps   *)
(* between which the function, which takes no lock, can be overtaken.       *)
(***************************************************************************)
EXTENDS Integers, Sequences, FiniteSets, TLC

\* ------------------------------------------------------------------ bounds
MaxTime == 3
MaxRun == 4
MaxEvents == 2
\* polling threads created in one run
MaxThreads == 2
\* the float format: significant bits, and fraction bits of the smallest float
Precision == 12
FracBits == 2

\* --------------------------------------------------------------- constants
MIN_CROSS_INTERVAL == 3

\* ------------------------------------------------------ float arithmetic
Pow2(k) == 2 ^ k

\* the float 1.0
Unit == Pow2(FracBits)

\* the float of a whole number
F(n) == n * Unit

\* a / q for a >= 0, to the nearest integer, a tie to the even one
RoundHalfEven(a, q) ==
    LET d == a \div q
        r == a % q
    IN  IF 2 * r < q THEN d
        ELSE IF 2 * r > q THEN d + 1
        ELSE IF d % 2 = 0 THEN d ELSE d + 1

\* low bits that a / d >= 0 loses to fit Precision significant bits, from k on
DroppedBits[a \in Nat, d \in Nat, k \in Nat] ==
    IF a < Pow2(Precision + k) * d THEN k ELSE DroppedBits[a, d, k + 1]

\* a / d >= 0 with its k low bits rounded away
Rounded[a \in Nat, d \in Nat, k \in Nat] ==
    RoundHalfEven(a, Pow2(k) * d) * Pow2(k)

\* the float nearest to the exact value n / d of an operation (d > 0): below
\* Pow2(Precision) the floats are the integers, so that a result of magnitude
\* under 1/2 underflows to zero; above, they have Precision significant bits
Round[n \in Int, d \in Nat] ==
    IF n < 0 THEN -Rounded[-n, d, DroppedBits[-n, d, 0]]
    ELSE Rounded[n, d, DroppedBits[n, d, 0]]

\* the floats below Limit are the integers
Limit == Pow2(Precision)

\* the float of an exact sum or difference n: n itself when n is a float
RoundDifference[n \in Int] ==
    IF -Limit < n /\ n < Limit THEN n ELSE Round[n, 1]

\* the float of an exact product n / Unit: the quotient when it is a float
RoundProduct[n \in Int] ==
    IF n % Unit = 0 /\ -Limit < n \div Unit /\ n \div Unit < Limit
    THEN n \div Unit
    ELSE Round[n, Unit]

\* a + b, a - b, a * b and a / 2.0 on floats
FAdd(a, b) == RoundDifference[a + b]

FHalf(a) == Round[a, 2]

FSub(a, b) == RoundDifference[a - b]

FMul(a, b) == RoundProduct[a * b]

TrackIds == {7, 8}
\* the processor is called for track 7; track 8 is a track seen earlier whose
\* entries are already in the dicts
ProcessedTrackIds == {7}
SeenTrackId == 8
Times == 0..MaxTime
DirectionArgs == {"IN", "OUT", "out", "left"}
CameraIds == {1}
\* the cameras that are polled, and what an entrance analytics row can hold
PolledCameras == {1, 2}
\* the cameras whose configuration is edited while the threads run
EditedCameras == {1}
\* what polling_loop finds in the camera's entrance analytics row: an active,
\* enabled configuration with a line; one that is active and enabled but has
\* no valid line; one that is not active or not enabled
AnalyticsStates == {"enabled", "no_line", "disabled"}
\* coordinates in whole numbers: (-1,5), (0,5), (1,5) and so on
Points == {[x |-> F(-1), y |-> F(5)], [x |-> F(0), y |-> F(5)],
           [x |-> F(1), y |-> F(5)]}
Lines == {[x1 |-> F(0), y1 |-> F(0), x2 |-> F(0), y2 |-> F(10)],
          [x1 |-> F(0), y1 |-> F(10), x2 |-> F(0), y2 |-> F(0)],
          [x1 |-> F(-1), y1 |-> F(4), x2 |-> F(1), y2 |-> F(6)],
          [x1 |-> F(0), y1 |-> F(0), x2 |-> F(0), y2 |-> F(0)]}
DirectionFilters == {"in", "out", "both"}
\* coordinates for the geometry alone: the smallest floats about zero and 1.0
GeomValues == {-1, 0, 1, F(1)}
GeomPoints == [x : GeomValues, y : GeomValues]
GeomLines == [x1 : GeomValues, y1 : GeomValues, x2 : GeomValues, y2 : GeomValues]
EntranceSidePoints == {[x |-> F(-5), y |-> F(5)], [x |-> F(0), y |-> F(5)],
                       [x |-> F(5), y |-> F(5)]}
\* Optional entrance_side: {} is None
EntranceSides == {{}} \cup {{p} : p \in EntranceSidePoints}
LineConfigs == [line : Lines, direction : DirectionFilters, entrance_side : EntranceSides]
ScenarioConfig == [line |-> [x1 |-> F(0), y1 |-> F(0), x2 |-> F(0), y2 |-> F(10)],
                   direction |-> "both", entrance_side |-> {}]

\* the configurations a camera is given in turn
SchedConfigs == {ScenarioConfig, [ScenarioConfig EXCEPT !.direction = "in"]}

VARIABLES
    track_state,    \* geometry_utils.track_state: track_id -> debounce state
    track_positions,\* entrance_exit_engine.track_positions: track_id -> position
    db_rows,        \* number of rows of table entry_exit_events
    config,         \* the line configuration the caller passes to the processor
    last,           \* the last call made, its arguments and what it returned
    alt_run         \* the calls of should_count_crossing made for one track since
                    \* its first crossing, kept while they alternate in direction
                    \* and each follows the previous one by less than the interval

VARIABLES
    entrance_polling_threads, \* routes.entrance_polling_threads: camera_id -> thread
    thread_control,           \* routes.thread_control: camera_id -> should_stop
    threads,                  \* every thread created: its camera, where it is in
                              \* polling_loop and the configuration it has read
    camera_analytics,         \* camera_id -> what the entrance analytics row of
                              \* the camera holds
    camera_config             \* camera_id -> the line, direction and entrance_side
                              \* of that row

sched == <<entrance_polling_threads, thread_control, threads, camera_analytics,
          camera_config>>

vars == <<track_state, track_positions, db_rows, config, last, alt_run,
          entrance_polling_threads, thread_control, threads, camera_analytics, camera_config>>

\* ------------------------------------------------------------ dict helpers
Put(d, k, v) == [i \in DOMAIN d \cup {k} |-> IF i = k THEN v ELSE d[i]]

Del(d, k) == [i \in DOMAIN d \ {k} |-> d[i]]

EmptyDict == [i \in {} |-> 0]

\* dict.get(k) as an Optional: {} when the key is absent
Get(d, k) == IF k \in DOMAIN d THEN {d[k]} ELSE {}

\* ---------------------------------------------------------------- debounce
\* str.upper() on the direction argument
Upper(s) ==
    CASE s = "in" -> "IN"
      [] s = "out" -> "OUT"
      [] s = "left" -> "LEFT"
      [] OTHER -> s

\* mutant: the stored time is left at its default
NewState_default_time(direction, current_time) ==
    [last_cross_time |-> 0, last_direction |-> direction]

NewState(direction, current_time) ==
    [last_cross_time |-> current_time, last_direction |-> direction]

\* mutant: the interval is one second short
TooSoon_short(state, current_time) ==
    current_time - state.last_cross_time < MIN_CROSS_INTERVAL - 1

\* mutant: a crossing exactly one interval later is still too soon
TooSoon_inclusive(state, current_time) ==
    current_time - state.last_cross_time <= MIN_CROSS_INTERVAL

\* mutant: the distance in time is taken without its sign
TooSoon_unsigned(state, current_time) ==
    /\ current_time - state.last_cross_time < MIN_CROSS_INTERVAL
    /\ state.last_cross_time - current_time < MIN_CROSS_INTERVAL

TooSoon(state, current_time) ==
    current_time - state.last_cross_time < MIN_CROSS_INTERVAL

\* mutant: the direction of the last crossing is not looked at
SameDirection_ignored(state, direction) == FALSE

SameDirection(state, direction) ==
    direction = state.last_direction

\* mutant: a crossing rejected as too soon still refreshes last_cross_time
should_count_crossing_refresh(ts, track_id, direction_arg, current_time) ==
    LET direction == Upper(direction_arg) IN
    IF direction \notin {"IN", "OUT"}
    THEN [ret |-> FALSE, state |-> ts]
    ELSE IF track_id \notin DOMAIN ts
    THEN [ret |-> TRUE, state |-> Put(ts, track_id, NewState(direction, current_time))]
    ELSE IF TooSoon(ts[track_id], current_time)
    THEN [ret |-> FALSE,
          state |-> Put(ts, track_id,
                        NewState(ts[track_id].last_direction, current_time))]
    ELSE IF SameDirection(ts[track_id], direction)
    THEN [ret |-> FALSE, state |-> ts]
    ELSE [ret |-> TRUE, state |-> Put(ts, track_id, NewState(direction, current_time))]

\* the decision and the dict after the call
should_count_crossing(ts, track_id, direction_arg, current_time) ==
    LET direction == Upper(direction_arg) IN
    IF direction \notin {"IN", "OUT"}
    THEN [ret |-> FALSE, state |-> ts]
    ELSE IF track_id \notin DOMAIN ts
    THEN [ret |-> TRUE, state |-> Put(ts, track_id, NewState(direction, current_time))]
    ELSE IF TooSoon(ts[track_id], current_time)
    THEN [ret |-> FALSE, state |-> ts]
    ELSE IF SameDirection(ts[track_id], direction)
    THEN [ret |-> FALSE, state |-> ts]
    ELSE [ret |-> TRUE, state |-> Put(ts, track_id, NewState(direction, current_time))]

\* mutant: reset empties the whole dict
reset_track_state_all(ts, track_id) ==
    IF track_id \in DOMAIN ts THEN EmptyDict ELSE ts

reset_track_state(ts, track_id) ==
    IF track_id \in DOMAIN ts THEN Del(ts, track_id) ELSE ts

\* ---------------------------------------------------------------- geometry
\* cross product of the line's direction with the vector from (x1,y1) to point
\* mutant: a line without direction is taken to run up the y axis
Cross_vertical(point, line) ==
    LET line_dx == FSub(line.x2, line.x1)
        line_dy == IF line.x1 = line.x2 /\ line.y1 = line.y2
                   THEN Unit ELSE FSub(line.y2, line.y1)
    IN  FSub(FMul(line_dx, FSub(point.y, line.y1)),
             FMul(line_dy, FSub(point.x, line.x1)))

Cross(point, line) ==
    LET line_dx == FSub(line.x2, line.x1)
        line_dy == FSub(line.y2, line.y1)
    IN  FSub(FMul(line_dx, FSub(point.y, line.y1)),
             FMul(line_dy, FSub(point.x, line.x1)))

\* mutant: left to right is IN and right to left is OUT
detect_line_crossing_reversed(prev_point, curr_point, line) ==
    LET prev_cross == Cross(prev_point, line)
        curr_cross == Cross(curr_point, line)
    IN  IF FMul(prev_cross, curr_cross) >= 0 THEN "None"
        ELSE IF prev_cross > 0 /\ curr_cross < 0 THEN "IN"
        ELSE IF prev_cross < 0 /\ curr_cross > 0 THEN "OUT"
        ELSE "None"

\* mutant: the sign of the product is not looked at
detect_line_crossing_unchecked(prev_point, curr_point, line) ==
    LET prev_cross == Cross(prev_point, line)
        curr_cross == Cross(curr_point, line)
    IN  IF prev_cross > 0 /\ curr_cross # 0 THEN "OUT"
        ELSE IF prev_cross < 0 /\ curr_cross # 0 THEN "IN"
        ELSE "None"

detect_line_crossing(prev_point, curr_point, line) ==
    LET prev_cross == Cross(prev_point, line)
        curr_cross == Cross(curr_point, line)
    IN  IF FMul(prev_cross, curr_cross) >= 0 THEN "None"
        ELSE IF prev_cross > 0 /\ curr_cross < 0 THEN "OUT"
        ELSE IF prev_cross < 0 /\ curr_cross > 0 THEN "IN"
        ELSE "None"

get_point_side_of_line(point, line) ==
    LET cross == Cross(point, line)
    IN  IF cross > 0 THEN "left"
        ELSE IF cross < 0 THEN "right"
        ELSE "None"

\* --------------------------------------------------------------- processor
Position(x, y, timestamp) == [x |-> x, y |-> y, timestamp |-> timestamp]

PointOf(x, y) == [x |-> x, y |-> y]

\* mutant: a missing previous position is read as the origin
PrevPosition_default(tp, track_id) ==
    IF track_id \in DOMAIN tp THEN {tp[track_id]} ELSE {Position(0, 0, 0)}

\* track_positions.get(track_id)
PrevPosition(tp, track_id) == Get(tp, track_id)

\* mutant: the position is stored only for a track not seen before
Upsert_if_absent(tp, track_id, position) ==
    IF track_id \in DOMAIN tp THEN tp ELSE Put(tp, track_id, position)

\* track_positions[track_id] = current_position
Upsert(tp, track_id, position) == Put(tp, track_id, position)

\* mutant: IN is labelled exit and OUT enter
GeometricType_swapped(direction) == IF direction = "IN" THEN "exit" ELSE "enter"

GeometricType(direction) == IF direction = "IN" THEN "enter" ELSE "exit"

\* mutant: coming from the entrance side is labelled exit
EventType_inverted(direction, prev_point, line, entrance_side_point) ==
    IF entrance_side_point # {}
    THEN LET prev_side == get_point_side_of_line(prev_point, line)
             entrance_side == get_point_side_of_line(
                                  CHOOSE p \in entrance_side_point : TRUE, line)
         IN  IF prev_side # "None" /\ entrance_side # "None"
             THEN IF prev_side = entrance_side THEN "exit" ELSE "enter"
             ELSE GeometricType(direction)
    ELSE GeometricType(direction)

\* the enter/exit label of a detected crossing
EventType(direction, prev_point, line, entrance_side_point) ==
    IF entrance_side_point # {}
    THEN LET prev_side == get_point_side_of_line(prev_point, line)
             entrance_side == get_point_side_of_line(
                                  CHOOSE p \in entrance_side_point : TRUE, line)
         IN  IF prev_side # "None" /\ entrance_side # "None"
             THEN IF prev_side = entrance_side THEN "enter" ELSE "exit"
             ELSE GeometricType(direction)
    ELSE GeometricType(direction)

\* mutant: the filter "in" lets only exits through and "out" only enters
Filtered_crossed(direction_filter, event_type) ==
    \/ direction_filter = "in" /\ event_type # "exit"
    \/ direction_filter = "out" /\ event_type # "enter"

Filtered(direction_filter, event_type) ==
    \/ direction_filter = "in" /\ event_type # "enter"
    \/ direction_filter = "out" /\ event_type # "exit"

\* mutant: the debouncer is keyed by the label (enter as IN, exit as OUT)
DebounceKey_label(direction, event_type) ==
    IF event_type = "enter" THEN "IN" ELSE "OUT"

\* the direction handed to should_count_crossing
DebounceKey(direction, event_type) == direction

\* datetime.fromtimestamp / int() of a timestamp in whole seconds
EventRow(camera_id, event_type, timestamp, track_id) ==
    [camera_id |-> camera_id, event |-> event_type, timestamp |-> timestamp,
     track_id |-> track_id]

\* what the database does on one create_entry_exit_event: the commit succeeds
\* and so does the refresh, the commit raises, or the refresh after a successful
\* commit raises
DbOutcomes == {"ok", "commit_failed", "refresh_failed"}

\* mutant: the row is added to the session and never committed
create_entry_exit_event_uncommitted(event, db) ==
    [rows |-> {}, raised |-> FALSE]

\* mutant: a failure of the database is swallowed
create_entry_exit_event_silent(event, db) ==
    [rows |-> IF db = "commit_failed" THEN {} ELSE {event}, raised |-> FALSE]

\* db.add, db.commit, db.refresh: the rows written and whether it raised
create_entry_exit_event(event, db) ==
    [rows |-> IF db = "commit_failed" THEN {} ELSE {event}, raised |-> db # "ok"]

\* the value of one call: the dicts after it, how far it got, the value
\* returned ({} is None), the rows written and whether it raised
Outcome(positions, state, outcome, direction, event_type, ret, persisted, raised) ==
    [positions |-> positions, state |-> state, outcome |-> outcome,
     direction |-> direction, event_type |-> event_type, ret |-> ret,
     persisted |-> persisted, raised |-> raised]

\* process_person_centroid from the direction filter on, for a crossing in
\* direction that has the label event_type
EmitEvent(positions, ts, camera_id, track_id, direction, event_type, direction_filter, timestamp, db) ==
    LET counted == should_count_crossing(ts, track_id,
                       DebounceKey(direction, event_type), timestamp)
        row == EventRow(camera_id, event_type, timestamp, track_id)
        created == create_entry_exit_event(row, db)
    IN  IF Filtered(direction_filter, event_type)
        THEN Outcome(positions, ts, "filtered", direction, event_type, {}, {}, FALSE)
        ELSE IF ~counted.ret
        THEN Outcome(positions, counted.state, "debounced", direction, event_type,
                     {}, {}, FALSE)
        ELSE IF created.raised
        THEN Outcome(positions, counted.state, "db_error", direction, event_type,
                     {}, created.rows, TRUE)
        ELSE Outcome(positions, counted.state, "event", direction, event_type,
                     {row}, created.rows, FALSE)

\* process_person_centroid once detect_line_crossing has returned direction
\* for the move from prev_point
LabelCrossing(positions, ts, camera_id, track_id, prev_point, direction, line_config, direction_filter, timestamp, entrance_side_point, db) ==
    IF direction = "None"
    THEN Outcome(positions, ts, "no_crossing", "None", "None", {}, {}, FALSE)
    ELSE EmitEvent(positions, ts, camera_id, track_id, direction,
                   EventType(direction, prev_point, line_config, entrance_side_point),
                   direction_filter, timestamp, db)

\* process_person_centroid from line 51 on, after track_positions.get has
\* returned prev_position; tp and ts are the dicts at this point and db is what
\* the database does if it is reached
process_after_get(prev_position, tp, ts, camera_id, track_id, centroid_x, centroid_y, line_config, direction_filter, timestamp, entrance_side_point, db) ==
    LET positions == Upsert(tp, track_id, Position(centroid_x, centroid_y, timestamp))
        prev == CHOOSE p \in prev_position : TRUE
    IN  IF prev_position = {}
        THEN Outcome(positions, ts, "first", "None", "None", {}, {}, FALSE)
        ELSE LabelCrossing(positions, ts, camera_id, track_id,
                 PointOf(prev.x, prev.y),
                 detect_line_crossing(PointOf(prev.x, prev.y),
                                      PointOf(centroid_x, centroid_y), line_config),
                 line_config, direction_filter, timestamp, entrance_side_point, db)

\* One call of process_person_centroid on dicts tp (positions) and ts (debounce)
\* that no other thread touches meanwhile
process_person_centroid(tp, ts, camera_id, track_id, centroid_x, centroid_y, line_config, direction_filter, timestamp, entrance_side_point, db) ==
    process_after_get(PrevPosition(tp, track_id), tp, ts, camera_id, track_id,
                      centroid_x, centroid_y, line_config, direction_filter,
                      timestamp, entrance_side_point, db)

clear_track_position(tp, track_id) ==
    IF track_id \in DOMAIN tp THEN Del(tp, track_id) ELSE tp

\* ----------------------------------------------------------------- polling
\* what the perception service returns for a camera: detections of track 7
\* whose boxes have the centroids (-1,5) and (1,5), and one without a track_id;
\* an Optional track_id is a set ({} is None)
DetLeft == [track_id |-> {7}, bbox |-> <<F(-2), F(4), F(0), F(6)>>, timestamp |-> 0]
DetRight == [track_id |-> {7}, bbox |-> <<F(0), F(4), F(2), F(6)>>, timestamp |-> 3]
DetNoTrack == [track_id |-> {}, bbox |-> <<F(0), F(4), F(2), F(6)>>, timestamp |-> 3]
\* the response while one person stands still
SchedBatches == {<<DetNoTrack, DetLeft>>}

PolledBatches == {<<>>, <<DetLeft>>, <<DetRight>>, <<DetLeft, DetRight>>,
                  <<DetRight, DetLeft>>, <<DetNoTrack, DetLeft>>}

\* centroid of bbox [x1, y1, x2, y2]
Centroid(bbox) == [x |-> FHalf(FAdd(bbox[1], bbox[3])),
                   y |-> FHalf(FAdd(bbox[2], bbox[4]))]

\* the for loop passes over a detection without track_id or whose bbox has
\* not four numbers
WellFormed(det) == det.track_id # {} /\ Len(det.bbox) = 4

\* the first detection from index i on that the for loop does not pass over;
\* Len(detections) + 1 when there is none
NextIndex(detections, i) ==
    LET ok == {j \in i..Len(detections) : WellFormed(detections[j])}
    IN  IF ok = {} THEN Len(detections) + 1
        ELSE CHOOSE j \in ok : \A k \in ok : j <= k

\* mutant: start never finds the camera registered
AlreadyRunning_never(ept, camera_id) == FALSE

\* camera_id in entrance_polling_threads
AlreadyRunning(ept, camera_id) == camera_id \in DOMAIN ept

\* threading.Thread(target=polling_loop): line_config is what the loop has read
\* of the configuration ({} before it has)
\* detections, i and prev_position are locals of the loop body: the response,
\* the index of the detection at hand and what track_positions.get returned
NewThread(camera_id) ==
    [camera_id |-> camera_id, pc |-> "created", line_config |-> {},
     detections |-> <<>>, i |-> 0, prev_position |-> {}]

Alive_always(thread) == TRUE

\* Thread.is_alive()
Alive(thread) == thread.pc # "done"

\* get_entrance_tracking_status: the two fields that come from the threads
get_entrance_tracking_status(ept, th, camera_id) ==
    LET thread == Get(ept, camera_id)
    IN  [polling_running |-> camera_id \in DOMAIN ept,
         thread_alive |-> IF thread # {}
                          THEN Alive(th[CHOOSE t \in thread : TRUE])
                          ELSE FALSE]

LiveWorkers(th, camera_id) ==
    {t \in DOMAIN th : th[t].camera_id = camera_id /\ Alive(th[t])}

\* the negation of the while condition of polling_loop
ShouldStop(tc, camera_id) == camera_id \in DOMAIN tc /\ tc[camera_id]

At(th, t, pc) == [th EXCEPT ![t].pc = pc]

\* the thread leaves the for loop for pc: its locals are dead
Leave(th, t, pc) ==
    [th EXCEPT ![t].pc = pc, ![t].detections = <<>>, ![t].i = 0,
               ![t].prev_position = {}]

\* ------------------------------------------------- the observed run (ghost)
Crossing(track_id, direction, current_time, ret) ==
    [track_id |-> track_id, direction |-> direction, now |-> current_time, ret |-> ret]

\* c continues run r: other direction, not earlier and less than the interval later
Continues(r, c) ==
    LET p == r[Len(r)] IN
    /\ c.track_id = p.track_id
    /\ c.direction # p.direction
    /\ c.now >= p.now
    /\ c.now - p.now < MIN_CROSS_INTERVAL

RunAfterCrossing(r, ts, track_id, direction_arg, current_time, ret) ==
    LET direction == Upper(direction_arg)
        c == Crossing(track_id, direction, current_time, ret)
    IN  IF direction \notin {"IN", "OUT"} THEN r
        ELSE IF track_id \notin DOMAIN ts THEN <<c>>
        ELSE IF r = <<>> THEN r
        ELSE IF r[1].track_id # track_id THEN r
        ELSE IF Len(r) < MaxRun /\ Continues(r, c) THEN Append(r, c)
        ELSE <<>>

RunAfterReset(r, track_id) ==
    IF r # <<>> /\ r[1].track_id = track_id THEN <<>> ELSE r

\* ----------------------------------------------------------------- actions
\* no thread has been created; every camera has an enabled configuration
NoPolling ==
    /\ entrance_polling_threads = EmptyDict
    /\ thread_control = EmptyDict
    /\ threads = EmptyDict
    /\ camera_analytics = [c \in PolledCameras |-> "enabled"]
    /\ camera_config = [c \in PolledCameras |-> ScenarioConfig]

Init ==
    /\ track_state = EmptyDict
    /\ track_positions = EmptyDict
    /\ db_rows = 0
    /\ config = ScenarioConfig
    /\ last = [op |-> "init"]
    /\ alt_run = <<>>
    /\ NoPolling

\* the processor's start: any line configuration; track 8 may have been seen
InitProc ==
    /\ track_state \in {EmptyDict, Put(EmptyDict, SeenTrackId, NewState("IN", 0))}
    /\ track_positions \in {EmptyDict, Put(EmptyDict, SeenTrackId, Position(F(1), F(5), 0))}
    /\ db_rows = 0
    /\ config \in LineConfigs
    /\ last = [op |-> "init"]
    /\ alt_run = <<>>
    /\ NoPolling

ShouldCountCrossing(track_id, direction, current_time) ==
    \E r \in {should_count_crossing(track_state, track_id, direction, current_time)} :
    /\ track_state' = r.state
    /\ last' = [op |-> "should_count_crossing", track_id |-> track_id,
                direction |-> direction, current_time |-> current_time,
                before |-> Get(track_state, track_id), ret |-> r.ret]
    /\ alt_run' = RunAfterCrossing(alt_run, track_state, track_id, direction,
                                   current_time, r.ret)
    /\ UNCHANGED <<track_positions, db_rows, config>>
    /\ UNCHANGED sched

ResetTrackState(track_id) ==
    /\ track_state' = reset_track_state(track_state, track_id)
    /\ last' = [op |-> "reset_track_state", track_id |-> track_id,
                before |-> Get(track_state, track_id)]
    /\ alt_run' = RunAfterReset(alt_run, track_id)
    /\ UNCHANGED <<track_positions, db_rows, config>>
    /\ UNCHANGED sched

ClearAllTrackStates ==
    /\ track_state' = EmptyDict
    /\ last' = [op |-> "clear_all_track_states"]
    /\ alt_run' = <<>>
    /\ UNCHANGED <<track_positions, db_rows, config>>
    /\ UNCHANGED sched

\* the database's behaviour is drawn when the call reaches the database
ProcessPersonCentroid(camera_id, track_id, point, timestamp) ==
    \E ok \in {process_person_centroid(track_positions, track_state, camera_id,
                  track_id, point.x, point.y, config.line, config.direction,
                  timestamp, config.entrance_side, "ok")} :
    \E db \in (IF ok.outcome = "event" THEN DbOutcomes ELSE {"ok"}) :
    \E r \in {IF db = "ok" THEN ok
              ELSE process_person_centroid(track_positions, track_state, camera_id,
                       track_id, point.x, point.y, config.line, config.direction,
                       timestamp, config.entrance_side, db)} :
        /\ r.persisted # {} => db_rows < MaxEvents
        /\ track_positions' = r.positions
        /\ track_state' = r.state
        /\ db_rows' = db_rows + Cardinality(r.persisted)
        /\ last' = [op |-> "process_person_centroid", camera_id |-> camera_id,
                    track_id |-> track_id, x |-> point.x, y |-> point.y,
                    timestamp |-> timestamp, outcome |-> r.outcome,
                    direction |-> r.direction, event_type |-> r.event_type,
                    ret |-> r.ret, persisted |-> r.persisted, raised |-> r.raised,
                    db |-> IF r.outcome \in {"event", "db_error"}
                           THEN db ELSE "not_reached"]
        /\ UNCHANGED <<config, alt_run>>
        /\ UNCHANGED sched

ClearTrackPosition(track_id) ==
    /\ track_positions' = clear_track_position(track_positions, track_id)
    /\ last' = [op |-> "clear_track_position", track_id |-> track_id]
    /\ UNCHANGED <<track_state, db_rows, config, alt_run>>
    /\ UNCHANGED sched

ClearAllTrackPositions ==
    /\ track_positions' = EmptyDict
    /\ last' = [op |-> "clear_all_track_positions"]
    /\ UNCHANGED <<track_state, db_rows, config, alt_run>>
    /\ UNCHANGED sched

Next ==
    \/ \E t \in TrackIds, d \in DirectionArgs, now \in Times :
          ShouldCountCrossing(t, d, now)
    \/ \E t \in TrackIds : ResetTrackState(t)
    \/ ClearAllTrackStates

Spec == Init /\ [][Next]_vars

NextProc ==
    \/ \E c \in CameraIds, t \in ProcessedTrackIds, p \in Points, now \in Times :
          ProcessPersonCentroid(c, t, p, now)
    \/ \E t \in TrackIds : ClearTrackPosition(t)
    \/ ClearAllTrackPositions
    \/ \E t \in TrackIds : ResetTrackState(t)
    \/ ClearAllTrackStates

SpecProc == InitProc /\ [][NextProc]_vars

\* the processor under one line configuration, with no reset of the debouncer
NextFixed ==
    \/ \E c \in CameraIds, t \in ProcessedTrackIds, p \in Points, now \in Times :
          ProcessPersonCentroid(c, t, p, now)
    \/ \E t \in TrackIds : ClearTrackPosition(t)
    \/ ClearAllTrackPositions

SpecFixed == InitProc /\ [][NextFixed]_vars

\* the geometry functions alone: the arguments are drawn at the start and
\* one of the functions is called on them
InitGeom ==
    /\ track_state = EmptyDict
    /\ track_positions = EmptyDict
    /\ db_rows = 0
    /\ config = ScenarioConfig
    /\ last \in [op : {"init"}, prev_point : GeomPoints, curr_point : GeomPoints,
                 line : GeomLines]
    /\ alt_run = <<>>
    /\ NoPolling

DetectLineCrossing ==
    /\ last.op = "init"
    /\ last' = [op |-> "detect_line_crossing", prev_point |-> last.prev_point,
                curr_point |-> last.curr_point, line |-> last.line,
                ret |-> detect_line_crossing(last.prev_point, last.curr_point,
                                             last.line)]
    /\ UNCHANGED <<track_state, track_positions, db_rows, config, alt_run>>
    /\ UNCHANGED sched

GetPointSideOfLine ==
    /\ last.op = "init"
    /\ last' = [op |-> "get_point_side_of_line", point |-> last.curr_point,
                line |-> last.line,
                ret |-> get_point_side_of_line(last.curr_point, last.line)]
    /\ UNCHANGED <<track_state, track_positions, db_rows, config, alt_run>>
    /\ UNCHANGED sched

NextGeom ==
    \/ DetectLineCrossing
    \/ GetPointSideOfLine

SpecGeom == InitGeom /\ [][NextGeom]_vars

\* the polling threads: start and stop are called one at a time, the threads
\* run between the calls in any order
InitSched ==
    /\ track_state = EmptyDict
    /\ track_positions = EmptyDict
    /\ db_rows = 0
    /\ config = ScenarioConfig
    /\ last = [op |-> "init"]
    /\ alt_run = <<>>
    /\ entrance_polling_threads = EmptyDict
    /\ thread_control = EmptyDict
    /\ threads = EmptyDict
    /\ camera_analytics \in [PolledCameras -> AnalyticsStates]
    /\ camera_config = [c \in PolledCameras |-> ScenarioConfig]

\* start_entrance_polling on the dicts and the threads; a new thread is
\* numbered after those created so far
start_entrance_polling(camera_id) ==
    IF AlreadyRunning(entrance_polling_threads, camera_id)
    THEN UNCHANGED <<entrance_polling_threads, thread_control, threads>>
    ELSE /\ Cardinality(DOMAIN threads) < MaxThreads
         /\ thread_control' = Put(thread_control, camera_id, FALSE)
         /\ threads' = Put(threads, Cardinality(DOMAIN threads) + 1,
                           NewThread(camera_id))
         /\ entrance_polling_threads' =
                Put(entrance_polling_threads, camera_id,
                    Cardinality(DOMAIN threads) + 1)

stop_entrance_polling_clears(camera_id) ==
    /\ IF camera_id \in DOMAIN entrance_polling_threads
       THEN /\ thread_control' = Put(thread_control, camera_id, TRUE)
            /\ entrance_polling_threads' = Del(entrance_polling_threads, camera_id)
       ELSE IF camera_id \in DOMAIN thread_control
       THEN /\ thread_control' = Del(thread_control, camera_id)
            /\ UNCHANGED entrance_polling_threads
       ELSE UNCHANGED <<entrance_polling_threads, thread_control>>
    /\ UNCHANGED threads

\* stop_entrance_polling on the dicts
stop_entrance_polling(camera_id) ==
    /\ IF camera_id \in DOMAIN entrance_polling_threads
       THEN /\ thread_control' = Put(thread_control, camera_id, TRUE)
            /\ entrance_polling_threads' = Del(entrance_polling_threads, camera_id)
       ELSE IF camera_id \in DOMAIN thread_control
       THEN /\ thread_control' = Put(thread_control, camera_id, TRUE)
            /\ UNCHANGED entrance_polling_threads
       ELSE UNCHANGED <<entrance_polling_threads, thread_control>>
    /\ UNCHANGED threads

\* POST /camera/{camera_id}/start
StartEntrancePolling(camera_id) ==
    /\ start_entrance_polling(camera_id)
    /\ last' = [op |-> "start_entrance_polling", camera_id |-> camera_id,
                launched |-> ~AlreadyRunning(entrance_polling_threads, camera_id),
                before_registered |-> Get(entrance_polling_threads, camera_id),
                before_control |-> Get(thread_control, camera_id),
                before_live |-> LiveWorkers(threads, camera_id),
                again |-> /\ last.op = "start_entrance_polling"
                          /\ last.camera_id = camera_id
                          /\ last.launched
                          /\ last.before_live = {}]
    /\ UNCHANGED <<track_state, track_positions, db_rows, config, alt_run,
                   camera_analytics, camera_config>>

\* POST /camera/{camera_id}/stop
StopEntrancePolling(camera_id) ==
    /\ stop_entrance_polling(camera_id)
    /\ last' = [op |-> "stop_entrance_polling", camera_id |-> camera_id,
                before_registered |-> Get(entrance_polling_threads, camera_id),
                before_control |-> Get(thread_control, camera_id),
                before_live |-> LiveWorkers(threads, camera_id)]
    /\ UNCHANGED <<track_state, track_positions, db_rows, config, alt_run,
                   camera_analytics, camera_config>>

\* PUT /config/{camera_id}: the row is written, with the new line, direction
\* and entrance_side when it has a valid line; then polling is started if the
\* row is active and enabled, with or without a valid line, and stopped if not
UpdateEntranceConfig(camera_id, analytics, line_config) ==
    /\ camera_analytics' = Put(camera_analytics, camera_id, analytics)
    /\ camera_config' = IF analytics = "enabled"
                        THEN Put(camera_config, camera_id, line_config)
                        ELSE camera_config
    /\ IF analytics = "disabled"
       THEN stop_entrance_polling(camera_id)
       ELSE start_entrance_polling(camera_id)
    /\ last' = [op |-> "update_entrance_config", camera_id |-> camera_id,
                started |-> analytics # "disabled",
                before_registered |-> Get(entrance_polling_threads, camera_id)]
    /\ UNCHANGED <<track_state, track_positions, db_rows, config, alt_run>>

GetEntranceTrackingStatus(camera_id) ==
    /\ last' = [op |-> "get_entrance_tracking_status", camera_id |-> camera_id,
                ret |-> get_entrance_tracking_status(entrance_polling_threads,
                                                     threads, camera_id)]
    /\ UNCHANGED <<track_state, track_positions, db_rows, config, alt_run>>
    /\ UNCHANGED sched

\* polling_loop up to the while: the thread reads the camera's configuration
\* and returns when it is not an active, enabled one with a line
LoadConfig(t) ==
    /\ threads[t].pc = "created"
    /\ threads' = IF camera_analytics[threads[t].camera_id] = "enabled"
                  THEN [threads EXCEPT ![t].pc = "while",
                                       ![t].line_config = {camera_config[threads[t].camera_id]}]
                  ELSE At(threads, t, "finally")
    /\ UNCHANGED <<track_state, track_positions, db_rows, config, last, alt_run,
                   entrance_polling_threads, thread_control, camera_analytics, camera_config>>

\* the while condition
CheckStop(t) ==
    /\ threads[t].pc = "while"
    /\ threads' = IF ShouldStop(thread_control, threads[t].camera_id)
                  THEN At(threads, t, "finally")
                  ELSE At(threads, t, "fetch")
    /\ UNCHANGED <<track_state, track_positions, db_rows, config, last, alt_run,
                   entrance_polling_threads, thread_control, camera_analytics, camera_config>>

PollFailed_dies(t) ==
    /\ threads[t].pc = "fetch"
    /\ threads' = At(threads, t, "finally")
    /\ UNCHANGED <<track_state, track_positions, db_rows, config, last, alt_run,
                   entrance_polling_threads, thread_control, camera_analytics, camera_config>>

\* the fetch raises (network error, timeout) or the response is not ok:
\* nothing is processed and the thread goes to sleep
PollFailed(t) ==
    /\ threads[t].pc = "fetch"
    /\ threads' = At(threads, t, "sleep")
    /\ UNCHANGED <<track_state, track_positions, db_rows, config, last, alt_run,
                   entrance_polling_threads, thread_control, camera_analytics, camera_config>>

\* time.sleep(1) of a pass that ended without a response or in an except
\* clause, then back to the while
Sleep(t) ==
    /\ threads[t].pc = "sleep"
    /\ threads' = At(threads, t, "while")
    /\ UNCHANGED <<track_state, track_positions, db_rows, config, last, alt_run,
                   entrance_polling_threads, thread_control, camera_analytics, camera_config>>

\* the response is ok: its detections are the list of the for loop, which
\* passes over the detections that are not well formed; after the last one
\* the thread is back at the while
Fetch(t, detections) ==
    /\ threads[t].pc = "fetch"
    /\ threads' = IF NextIndex(detections, 1) > Len(detections)
                  THEN At(threads, t, "while")
                  ELSE [threads EXCEPT ![t].pc = "get",
                                       ![t].detections = detections,
                                       ![t].i = NextIndex(detections, 1)]
    /\ UNCHANGED <<track_state, track_positions, db_rows, config, last, alt_run,
                   entrance_polling_threads, thread_control, camera_analytics, camera_config>>

\* the call of process_person_centroid for detection i up to its
\* track_positions.get
GetPosition(t) ==
    /\ threads[t].pc = "get"
    /\ threads' = [threads EXCEPT
           ![t].pc = "process",
           ![t].prev_position =
               PrevPosition(track_positions,
                   CHOOSE k \in threads[t].detections[threads[t].i].track_id : TRUE)]
    /\ UNCHANGED <<track_state, track_positions, db_rows, config, last, alt_run,
                   entrance_polling_threads, thread_control, camera_analytics, camera_config>>

\* the rest of that call, with the configuration the thread has read: an
\* exception leaves the for loop for the except clause, where the thread
\* sleeps; otherwise the loop goes on with the next detection
Process(t) ==
    LET thread == threads[t]
        det == thread.detections[thread.i]
        line_config == CHOOSE c \in thread.line_config : TRUE
        next == NextIndex(thread.detections, thread.i + 1)
    IN
    /\ thread.pc = "process"
    /\ \E ok \in {process_after_get(thread.prev_position, track_positions,
                      track_state, thread.camera_id,
                      CHOOSE k \in det.track_id : TRUE,
                      Centroid(det.bbox).x, Centroid(det.bbox).y,
                      line_config.line, line_config.direction, det.timestamp,
                      line_config.entrance_side, "ok")} :
       \E db \in (IF ok.outcome = "event" THEN DbOutcomes ELSE {"ok"}) :
       \E r \in {IF db = "ok" THEN ok
                 ELSE process_after_get(thread.prev_position, track_positions,
                          track_state, thread.camera_id,
                          CHOOSE k \in det.track_id : TRUE,
                          Centroid(det.bbox).x, Centroid(det.bbox).y,
                          line_config.line, line_config.direction, det.timestamp,
                          line_config.entrance_side, db)} :
          /\ r.persisted # {} => db_rows < MaxEvents
          /\ track_positions' = r.positions
          /\ track_state' = r.state
          /\ db_rows' = db_rows + Cardinality(r.persisted)
          /\ threads' = IF r.raised THEN Leave(threads, t, "sleep")
                        ELSE IF next > Len(thread.detections)
                        THEN Leave(threads, t, "while")
                        ELSE [threads EXCEPT ![t].pc = "get", ![t].i = next,
                                             ![t].prev_position = {}]
    /\ UNCHANGED <<config, last, alt_run, entrance_polling_threads,
                   thread_control, camera_analytics, camera_config>>

\* mutant: a thread that ends takes the stored positions with it
CloseSession_forgets(t) ==
    /\ threads[t].pc = "finally"
    /\ threads' = IF threads[t].camera_id \in DOMAIN thread_control
                  THEN At(threads, t, "del")
                  ELSE At(threads, t, "done")
    /\ track_positions' = EmptyDict
    /\ UNCHANGED <<track_state, db_rows, config, last, alt_run,
                   entrance_polling_threads, thread_control, camera_analytics, camera_config>>

\* finally: session.close() and the test camera_id in thread_control
CloseSession(t) ==
    /\ threads[t].pc = "finally"
    /\ threads' = IF threads[t].camera_id \in DOMAIN thread_control
                  THEN At(threads, t, "del")
                  ELSE At(threads, t, "done")
    /\ UNCHANGED <<track_state, track_positions, db_rows, config, last, alt_run,
                   entrance_polling_threads, thread_control, camera_analytics, camera_config>>

DeleteControl_all(t) ==
    /\ threads[t].pc = "del"
    /\ thread_control' = EmptyDict
    /\ threads' = At(threads, t, "done")
    /\ UNCHANGED <<track_state, track_positions, db_rows, config, last, alt_run,
                   entrance_polling_threads, camera_analytics, camera_config>>

\* del thread_control[camera_id]: a KeyError when the key has gone since the
\* test; the thread ends either way
DeleteControl(t) ==
    /\ threads[t].pc = "del"
    /\ thread_control' = IF threads[t].camera_id \in DOMAIN thread_control
                         THEN Del(thread_control, threads[t].camera_id)
                         ELSE thread_control
    /\ threads' = At(threads, t, "done")
    /\ UNCHANGED <<track_state, track_positions, db_rows, config, last, alt_run,
                   entrance_polling_threads, camera_analytics, camera_config>>

NextSched ==
    \/ \E c \in PolledCameras : StartEntrancePolling(c)
    \/ \E c \in PolledCameras : StopEntrancePolling(c)
    \/ \E c \in PolledCameras : GetEntranceTrackingStatus(c)
    \/ \E c \in EditedCameras, a \in AnalyticsStates, l \in SchedConfigs :
          UpdateEntranceConfig(c, a, l)
    \/ \E t \in DOMAIN threads : LoadConfig(t)
    \/ \E t \in DOMAIN threads : CheckStop(t)
    \/ \E t \in DOMAIN threads : PollFailed(t)
    \/ \E t \in DOMAIN threads : Sleep(t)
    \/ \E t \in DOMAIN threads, b \in SchedBatches : Fetch(t, b)
    \/ \E t \in DOMAIN threads : GetPosition(t)
    \/ \E t \in DOMAIN threads : Process(t)
    \/ \E t \in DOMAIN threads : CloseSession(t)
    \/ \E t \in DOMAIN threads : DeleteControl(t)

SpecSched == InitSched /\ [][NextSched]_vars

\* the polling threads at work: every camera has the scenario's configuration,
\* which is not changed, and the responses show a person who moves
InitPoll ==
    /\ track_state = EmptyDict
    /\ track_positions = EmptyDict
    /\ db_rows = 0
    /\ config = ScenarioConfig
    /\ last = [op |-> "init"]
    /\ alt_run = <<>>
    /\ NoPolling

NextPoll ==
    \/ \E c \in PolledCameras : StartEntrancePolling(c)
    \/ \E c \in PolledCameras : StopEntrancePolling(c)
    \/ \E t \in DOMAIN threads : LoadConfig(t)
    \/ \E t \in DOMAIN threads : CheckStop(t)
    \/ \E t \in DOMAIN threads : PollFailed(t)
    \/ \E t \in DOMAIN threads : Sleep(t)
    \/ \E t \in DOMAIN threads, b \in PolledBatches : Fetch(t, b)
    \/ \E t \in DOMAIN threads : GetPosition(t)
    \/ \E t \in DOMAIN threads : Process(t)
    \/ \E t \in DOMAIN threads : CloseSession(t)
    \/ \E t \in DOMAIN threads : DeleteControl(t)

SpecPoll == InitPoll /\ [][NextPoll]_vars

\* two cameras that see different places: the response for camera 1 always
\* shows a person standing on the left of the line, the response for camera 2
\* a person standing on the right, and the tracker of each camera has given
\* its person the track_id 7
CameraBatches(camera_id) == IF camera_id = 1 THEN {<<DetLeft>>} ELSE {<<DetRight>>}

NextCams ==
    \/ \E c \in PolledCameras : StartEntrancePolling(c)
    \/ \E c \in PolledCameras : StopEntrancePolling(c)
    \/ \E t \in DOMAIN threads : LoadConfig(t)
    \/ \E t \in DOMAIN threads : CheckStop(t)
    \/ \E t \in DOMAIN threads : PollFailed(t)
    \/ \E t \in DOMAIN threads : Sleep(t)
    \/ \E t \in DOMAIN threads :
          \E b \in CameraBatches(threads[t].camera_id) : Fetch(t, b)
    \/ \E t \in DOMAIN threads : GetPosition(t)
    \/ \E t \in DOMAIN threads : Process(t)
    \/ \E t \in DOMAIN threads : CloseSession(t)
    \/ \E t \in DOMAIN threads : DeleteControl(t)

SpecCams == InitPoll /\ [][NextCams]_vars

\* a polling thread that has called should_count_crossing(track_id,
\* direction, current_time) from process_person_centroid; the function takes
\* no lock, so its reads and its write of track_state are steps between which
\* another thread may run
CountingThread(track_id, direction, current_time) ==
    [pc |-> "test", track_id |-> track_id, direction |-> direction,
     current_time |-> current_time, ret |-> {}]

Returned(th, t, ret) == [th EXCEPT ![t].pc = "returned", ![t].ret = {ret}]

\* direction.upper(), the test of the direction and track_id not in track_state
TestState(t) ==
    /\ threads[t].pc = "test"
    /\ threads' = IF Upper(threads[t].direction) \notin {"IN", "OUT"}
                  THEN Returned(threads, t, FALSE)
                  ELSE IF threads[t].track_id \notin DOMAIN track_state
                  THEN At(threads, t, "store")
                  ELSE At(threads, t, "read")
    /\ UNCHANGED <<track_state, track_positions, db_rows, config, last, alt_run,
                   entrance_polling_threads, thread_control, camera_analytics, camera_config>>

\* state = track_state[track_id] and the two checks on what was read
ReadState(t) ==
    /\ threads[t].pc = "read"
    /\ threads[t].track_id \in DOMAIN track_state
    /\ threads' = IF \/ TooSoon(track_state[threads[t].track_id],
                                threads[t].current_time)
                     \/ SameDirection(track_state[threads[t].track_id],
                                      Upper(threads[t].direction))
                  THEN Returned(threads, t, FALSE)
                  ELSE At(threads, t, "store")
    /\ UNCHANGED <<track_state, track_positions, db_rows, config, last, alt_run,
                   entrance_polling_threads, thread_control, camera_analytics, camera_config>>

\* track_state[track_id] = {...}; return True
StoreState(t) ==
    /\ threads[t].pc = "store"
    /\ track_state' = Put(track_state, threads[t].track_id,
                          NewState(Upper(threads[t].direction),
                                   threads[t].current_time))
    /\ threads' = Returned(threads, t, TRUE)
    /\ UNCHANGED <<track_positions, db_rows, config, last, alt_run,
                   entrance_polling_threads, thread_control, camera_analytics, camera_config>>

\* the threads of MaxThreads polling loops are each in a call of
\* should_count_crossing for track 7, which may have crossed before
InitRace ==
    /\ track_state \in {EmptyDict, Put(EmptyDict, 7, NewState("IN", 0))}
    /\ track_positions = EmptyDict
    /\ db_rows = 0
    /\ config = ScenarioConfig
    /\ last = [op |-> "init"]
    /\ alt_run = <<>>
    /\ entrance_polling_threads = EmptyDict
    /\ thread_control = EmptyDict
    /\ threads \in [1..MaxThreads ->
                       {CountingThread(7, d, now) : d \in DirectionArgs, now \in Times}]
    /\ camera_analytics = [c \in PolledCameras |-> "enabled"]
    /\ camera_config = [c \in PolledCameras |-> ScenarioConfig]

NextRace ==
    \/ \E t \in DOMAIN threads : TestState(t)
    \/ \E t \in DOMAIN threads : ReadState(t)
    \/ \E t \in DOMAIN threads : StoreState(t)

SpecRace == InitRace /\ [][NextRace]_vars

\* the threads under fair scheduling while the perception service does not
\* answer: a thread that can take a step of polling_loop takes it, and
\* requests.get and time.sleep return
NextStop ==
    \/ \E c \in PolledCameras : StartEntrancePolling(c)
    \/ \E c \in PolledCameras : StopEntrancePolling(c)
    \/ \E t \in DOMAIN threads : LoadConfig(t)
    \/ \E t \in DOMAIN threads : CheckStop(t)
    \/ \E t \in DOMAIN threads : PollFailed(t)
    \/ \E t \in DOMAIN threads : Sleep(t)
    \/ \E t \in DOMAIN threads : CloseSession(t)
    \/ \E t \in DOMAIN threads : DeleteControl(t)

Run(t) ==
    /\ t \in DOMAIN threads
    /\ \/ LoadConfig(t) \/ CheckStop(t) \/ PollFailed(t) \/ Sleep(t)
       \/ CloseSession(t) \/ DeleteControl(t)

SpecStop ==
    /\ InitSched
    /\ [][NextStop]_vars
    /\ \A t \in 1..MaxThreads : WF_vars(Run(t))


\* ================================================================ claims
\* a call of should_count_crossing has just been made with direction IN or OUT
Counted == last'.op = "should_count_crossing" /\ Upper(last'.direction) \in {"IN", "OUT"}

StoredNow == [last_cross_time |-> last'.current_time,
              last_direction |-> Upper(last'.direction)]

OthersUnchanged(t) ==
    /\ DOMAIN track_state' \ {t} = DOMAIN track_state \ {t}
    /\ \A i \in DOMAIN track_state \ {t} : track_state'[i] = track_state[i]

\* C1: should_count_crossing for a track with no stored debounce state returns
\* true and stores {last_cross_time: now, last_direction: direction} for that
\* track, for direction IN and OUT and every now.
C1_FirstCrossingAccepted ==
    [][(Counted /\ last'.track_id \notin DOMAIN track_state)
        => /\ last'.ret = TRUE
           /\ last'.track_id \in DOMAIN track_state'
           /\ track_state'[last'.track_id] = StoredNow
           /\ OthersUnchanged(last'.track_id)]_vars

C1_Witness ==
    /\ last.op = "should_count_crossing"
    /\ last.before = {}
    /\ last.ret = TRUE
    /\ last.current_time > 0
    /\ track_state[last.track_id] =
           [last_cross_time |-> last.current_time, last_direction |-> last.direction]

\* C2: with stored state and now - last_cross_time < MIN_CROSS_INTERVAL the call
\* returns false whatever the direction, and the state of every track is as it
\* was.
C2_TooSoonRejected ==
    [][(/\ last'.op = "should_count_crossing"
        /\ last'.track_id \in DOMAIN track_state
        /\ last'.current_time - track_state[last'.track_id].last_cross_time
               < MIN_CROSS_INTERVAL)
        => /\ last'.ret = FALSE
           /\ track_state' = track_state]_vars

C2_Witness ==
    /\ last.op = "should_count_crossing"
    /\ last.before # {}
    /\ \E b \in last.before :
          /\ last.current_time - b.last_cross_time = MIN_CROSS_INTERVAL - 1
          /\ Upper(last.direction) \in {"IN", "OUT"} \ {b.last_direction}
          /\ track_state[last.track_id] = b
    /\ last.ret = FALSE
    /\ DOMAIN track_state = TrackIds

\* C3: with stored state, now - last_cross_time >= MIN_CROSS_INTERVAL and the
\* direction of the last crossing, the call returns false and the state is as it
\* was (last_cross_time is not refreshed).
C3_SameDirectionRejected ==
    [][(/\ Counted
        /\ last'.track_id \in DOMAIN track_state
        /\ last'.current_time - track_state[last'.track_id].last_cross_time
               >= MIN_CROSS_INTERVAL
        /\ Upper(last'.direction) = track_state[last'.track_id].last_direction)
        => /\ last'.ret = FALSE
           /\ track_state' = track_state]_vars

C3_Witness ==
    /\ last.op = "should_count_crossing"
    /\ \E b \in last.before :
          /\ last.current_time - b.last_cross_time >= MIN_CROSS_INTERVAL
          /\ Upper(last.direction) = b.last_direction
          /\ track_state[last.track_id] = b
    /\ last.ret = FALSE

\* C4: with stored state, now - last_cross_time >= MIN_CROSS_INTERVAL (also
\* exactly the interval) and the other direction, the call returns true and
\* overwrites the state with {last_cross_time: now, last_direction: direction}.
C4_OtherDirectionAccepted ==
    [][(/\ Counted
        /\ last'.track_id \in DOMAIN track_state
        /\ last'.current_time - track_state[last'.track_id].last_cross_time
               >= MIN_CROSS_INTERVAL
        /\ Upper(last'.direction) # track_state[last'.track_id].last_direction)
        => /\ last'.ret = TRUE
           /\ DOMAIN track_state' = DOMAIN track_state
           /\ track_state'[last'.track_id] = StoredNow
           /\ OthersUnchanged(last'.track_id)]_vars

C4_Witness ==
    /\ last.op = "should_count_crossing"
    /\ \E b \in last.before :
          /\ last.current_time - b.last_cross_time = MIN_CROSS_INTERVAL
          /\ Upper(last.direction) # b.last_direction
    /\ last.ret = TRUE
    /\ track_state[last.track_id] =
           [last_cross_time |-> last.current_time,
            last_direction |-> Upper(last.direction)]

C6_ResetForgetsTrack ==
    [][/\ last'.op = "reset_track_state"
          => /\ last'.track_id \notin DOMAIN track_state'
             /\ OthersUnchanged(last'.track_id)
       /\ (last.op = "reset_track_state" /\ Counted /\ last'.track_id = last.track_id)
          => /\ last'.ret = TRUE
             /\ track_state'[last'.track_id] = StoredNow]_vars

C6_Witness ==
    /\ last.op = "reset_track_state"
    /\ last.before # {}
    /\ DOMAIN track_state = TrackIds \ {last.track_id}

\* a call of process_person_centroid has just been made
Processed == last'.op = "process_person_centroid"

\* C7: after every call of process_person_centroid, whatever its outcome, the
\* position stored for track_id is (x, y, now) and the entries of the other
\* tracks are as they were.
C7_PositionAlwaysStored ==
    [][Processed
        => /\ last'.track_id \in DOMAIN track_positions'
           /\ track_positions'[last'.track_id] =
                  [x |-> last'.x, y |-> last'.y, timestamp |-> last'.timestamp]
           /\ DOMAIN track_positions' = DOMAIN track_positions \cup {last'.track_id}
           /\ \A i \in DOMAIN track_positions \ {last'.track_id} :
                  track_positions'[i] = track_positions[i]]_vars

C7_Witness ==
    /\ last.op = "process_person_centroid"
    /\ last.outcome = "debounced"
    /\ track_positions[last.track_id] =
           [x |-> last.x, y |-> last.y, timestamp |-> last.timestamp]
    /\ SeenTrackId \in DOMAIN track_positions
    /\ last.timestamp > 0

\* C8: a call for a track with no stored position returns None, writes no row
\* and leaves the debounce state as it was, for every line configuration.
C8_FirstObservationQuiet ==
    [][(Processed /\ last'.track_id \notin DOMAIN track_positions)
        => /\ last'.ret = {}
           /\ last'.persisted = {}
           /\ last'.raised = FALSE
           /\ db_rows' = db_rows
           /\ track_state' = track_state]_vars

C8_Witness ==
    /\ last.op = "process_person_centroid"
    /\ last.outcome = "first"
    /\ last.ret = {}
    /\ last.track_id \in DOMAIN track_state
    /\ config.line.x1 # config.line.x2
    /\ db_rows > 0

\* C9: with an entrance_side and a crossing detected, the label is "enter" iff
\* the previous point is on the side of the line where the entrance_side point
\* is, otherwise "exit"; with the entrance_side point on the line the label is
\* the geometric one (IN enter, OUT exit).
C9_EntranceSideLabel ==
    [][(Processed /\ last'.direction # "None" /\ config.entrance_side # {})
        => LET prev == track_positions[last'.track_id]
               prev_side == get_point_side_of_line([x |-> prev.x, y |-> prev.y],
                                                   config.line)
               entrance == CHOOSE p \in config.entrance_side : TRUE
               entrance_side == get_point_side_of_line(entrance, config.line)
           IN  IF entrance_side # "None"
               THEN /\ last'.event_type \in {"enter", "exit"}
                    /\ last'.event_type = "enter" <=> prev_side = entrance_side
               ELSE /\ last'.direction = "IN" => last'.event_type = "enter"
                    /\ last'.direction = "OUT" => last'.event_type = "exit"]_vars

C9_Witness ==
    /\ last.op = "process_person_centroid"
    /\ last.outcome = "event"
    /\ config.entrance_side # {}
    /\ last.direction = "OUT"
    /\ \E e \in last.ret : e.event = "enter"

\* C10: without an entrance_side an emitted event is labelled "enter" iff
\* detect_line_crossing returned IN and "exit" iff it returned OUT.
C10_GeometricLabel ==
    [][(Processed /\ last'.ret # {} /\ config.entrance_side = {})
        => LET prev == track_positions[last'.track_id]
               d == detect_line_crossing([x |-> prev.x, y |-> prev.y],
                                         [x |-> last'.x, y |-> last'.y], config.line)
           IN  \A e \in last'.ret :
                  /\ e.event = "enter" <=> d = "IN"
                  /\ e.event = "exit" <=> d = "OUT"]_vars

C10_Witness ==
    /\ last.op = "process_person_centroid"
    /\ config.entrance_side = {}
    /\ last.direction = "IN"
    /\ \E e \in last.ret : e.event = "enter"

\* C11: with direction filter "in" no event labelled "exit" is returned or
\* written, with "out" none labelled "enter"; with "both" the filter discards
\* neither label.
C11_DirectionFilter ==
    last.op = "process_person_centroid" =>
        /\ config.direction = "in"
              => /\ \A e \in last.ret \cup last.persisted : e.event # "exit"
                 /\ last.event_type = "exit" => last.outcome = "filtered"
        /\ config.direction = "out"
              => /\ \A e \in last.ret \cup last.persisted : e.event # "enter"
                 /\ last.event_type = "enter" => last.outcome = "filtered"
        /\ config.direction = "both" => last.outcome # "filtered"
        /\ last.outcome = "filtered" => last.ret = {} /\ last.persisted = {}

C11_Witness ==
    /\ last.op = "process_person_centroid"
    /\ config.direction = "in"
    /\ last.event_type = "exit"
    /\ last.outcome = "filtered"
    /\ last.track_id \notin DOMAIN track_state

\* C12: the debouncer is asked with the geometric direction, not the label:
\* from every reachable pair of dicts and for every detection, the call with the
\* configured entrance_side and the call without one pass or fail debouncing
\* alike and leave the same debounce state and positions (direction filter
\* "both"), so the calls that pass are the same over any sequence.
C12_DebounceIgnoresRelabel ==
    config.direction = "both" =>
        \A t \in ProcessedTrackIds, p \in Points, now \in Times :
            LET with == process_person_centroid(track_positions, track_state, 1, t,
                            p.x, p.y, config.line, "both", now,
                            config.entrance_side, "ok")
                without == process_person_centroid(track_positions, track_state, 1, t,
                               p.x, p.y, config.line, "both", now, {}, "ok")
            IN  /\ with.state = without.state
                /\ with.positions = without.positions
                /\ with.outcome = without.outcome
                /\ with.direction = without.direction
                /\ with.direction \in {"IN", "OUT"} /\ with.outcome = "event"
                      => /\ t \in DOMAIN with.state
                         /\ with.state[t].last_direction = with.direction

C12_Witness ==
    /\ last.op = "process_person_centroid"
    /\ config.direction = "both"
    /\ config.entrance_side # {}
    /\ last.outcome = "event"
    /\ last.direction = "IN"
    /\ last.event_type = "exit"
    /\ track_state[last.track_id].last_direction = "IN"

\* the debouncer accepted the crossing of the call just made, which therefore
\* went on to the database
Accepted == last'.outcome \in {"event", "db_error"}

\* C13 as stated: every call appends exactly one row when it accepts the
\* crossing and none otherwise, so that the rows written always number the
\* acceptance decisions.
C13_RowPerAcceptance ==
    [][Processed => db_rows' - db_rows = (IF Accepted THEN 1 ELSE 0)]_vars

\* C13: a call that returns an event has appended exactly one row, with the
\* camera_id, event label and track_id returned; a call that returns None has
\* appended nothing; no call appends a row without an acceptance decision, and
\* an acceptance decision is without its row only when the call raised because
\* the commit failed.
C13_RowPerReturnedEvent ==
    [][Processed =>
        /\ last'.ret # {}
              => /\ db_rows' = db_rows + 1
                 /\ Cardinality(last'.persisted) = 1
                 /\ \A e \in last'.ret : \A w \in last'.persisted :
                        /\ w.camera_id = e.camera_id /\ w.camera_id = last'.camera_id
                        /\ w.event = e.event /\ w.event = last'.event_type
                        /\ w.track_id = e.track_id /\ w.track_id = last'.track_id
        /\ last'.ret = {} /\ ~last'.raised
              => db_rows' = db_rows /\ last'.persisted = {}
        /\ db_rows' - db_rows = Cardinality(last'.persisted)
        /\ last'.persisted # {} => Accepted
        /\ Accepted /\ last'.persisted = {}
              => last'.raised /\ last'.db = "commit_failed"]_vars

C13_Witness ==
    /\ last.op = "process_person_centroid"
    /\ last.outcome = "event"
    /\ last.ret # {}
    /\ last.persisted = last.ret
    /\ db_rows = 2

\* C14: when the append fails the call raises and returns nothing, the
\* position of this detection stays stored and so does the debounce state
\* written for it; the debouncer then rejects the same direction for the track
\* at every time, and the same detection processed again is no event.
C14_FailureKeepsState ==
    [][(Processed /\ Accepted /\ last'.db # "ok") =>
        LET t == last'.track_id IN
        /\ last'.raised /\ last'.ret = {}
        /\ t \in DOMAIN track_positions'
        /\ track_positions'[t] = Position(last'.x, last'.y, last'.timestamp)
        /\ t \in DOMAIN track_state'
        /\ track_state'[t] = [last_cross_time |-> last'.timestamp,
                              last_direction |-> last'.direction]
        /\ \A now \in Times :
              ~should_count_crossing(track_state', t, last'.direction, now).ret
        /\ \A db \in DbOutcomes :
              LET again == process_person_centroid(track_positions', track_state',
                               last'.camera_id, t, last'.x, last'.y, config.line,
                               config.direction, last'.timestamp,
                               config.entrance_side, db)
              IN  again.ret = {} /\ ~again.raised /\ again.persisted = {}]_vars

C14_Witness ==
    /\ last.op = "process_person_centroid"
    /\ last.db = "commit_failed"
    /\ last.raised
    /\ last.persisted = {}
    /\ last.track_id \in DOMAIN track_state
    /\ track_state[last.track_id].last_cross_time = last.timestamp
    /\ track_positions[last.track_id].timestamp = last.timestamp

\* the scenario: line (0,0)-(0,10), no entrance_side, filter "both"; the call
\* just made is the second sighting of a track, at (1,5) after (-1,5), the track
\* has no debounce state and the database works
ScenarioStep ==
    /\ Processed
    /\ config = ScenarioConfig
    /\ last'.track_id \in DOMAIN track_positions
    /\ track_positions[last'.track_id].x = F(-1)
    /\ track_positions[last'.track_id].y = F(5)
    /\ last'.x = F(1) /\ last'.y = F(5)
    /\ last'.track_id \notin DOMAIN track_state
    /\ last'.db = "ok"

\* C15 as stated: in the scenario the call emits an event with event "enter".
C15_ScenarioEnters ==
    [][ScenarioStep => \E e \in last'.ret : e.event = "enter"]_vars

\* C15: in the scenario the crossing is from the left of the line to its right,
\* which is OUT, and the call emits exactly one event, with event "exit" and the
\* track's id.
C15_ScenarioExits ==
    [][ScenarioStep =>
        /\ last'.direction = "OUT"
        /\ Cardinality(last'.ret) = 1
        /\ \A e \in last'.ret : e.event = "exit" /\ e.track_id = last'.track_id
        /\ last'.persisted = last'.ret]_vars

C15_Witness ==
    /\ last.op = "process_person_centroid"
    /\ config = ScenarioConfig
    /\ last.x = F(1) /\ last.y = F(5)
    /\ last.direction = "OUT"
    /\ last.db = "ok"
    /\ \E e \in last.ret : e.event = "exit" /\ e.track_id = 7
    /\ db_rows = 1

\* the line with its two endpoints swapped
Reversed(line) == [x1 |-> line.x2, y1 |-> line.y2, x2 |-> line.x1, y2 |-> line.y1]

Degenerate(line) == line.x1 = line.x2 /\ line.y1 = line.y2

Opposite(side) ==
    CASE side = "left" -> "right"
      [] side = "right" -> "left"
      [] OTHER -> "None"

\* C16 as stated: for a non-degenerate line the side of a point is left iff its
\* side of the reversed line is right, right iff left, and on the line iff on
\* the reversed line.
C16_SideSymmetry ==
    (last.op = "get_point_side_of_line" /\ ~Degenerate(last.line))
        => get_point_side_of_line(last.point, Reversed(last.line)) = Opposite(last.ret)

\* a point that is off the line one way round and on the line the other way
C16_Witness ==
    /\ last.op = "get_point_side_of_line"
    /\ ~Degenerate(last.line)
    /\ last.ret = "right"
    /\ get_point_side_of_line(last.point, Reversed(last.line)) = "None"

\* C17: two points that get_point_side_of_line puts on the same side of the
\* line, both left or both right, are no crossing: detect_line_crossing returns
\* None.
C17_SameSideNoCrossing ==
    LET prev_side == get_point_side_of_line(last.prev_point, last.line)
        curr_side == get_point_side_of_line(last.curr_point, last.line)
    IN  (last.op = "detect_line_crossing" /\ prev_side = curr_side
            /\ prev_side \in {"left", "right"})
        => last.ret = "None"

C17_Witness ==
    /\ last.op = "detect_line_crossing"
    /\ ~Degenerate(last.line)
    /\ last.prev_point # last.curr_point
    /\ get_point_side_of_line(last.prev_point, last.line) = "right"
    /\ get_point_side_of_line(last.curr_point, last.line) = "right"
    /\ last.ret = "None"

\* what the sides of the two points make the crossing
CrossingOfSides(prev_side, curr_side) ==
    IF prev_side = "left" /\ curr_side = "right" THEN "OUT"
    ELSE IF prev_side = "right" /\ curr_side = "left" THEN "IN"
    ELSE "None"

\* C18 as stated: detect_line_crossing returns OUT iff prev is left and curr is
\* right of the line, IN iff prev is right and curr is left, and None in every
\* other case: its result is the one the two sides of get_point_side_of_line
\* make.
C18_CrossingMatchesSides ==
    last.op = "detect_line_crossing"
        => last.ret = CrossingOfSides(
                          get_point_side_of_line(last.prev_point, last.line),
                          get_point_side_of_line(last.curr_point, last.line))

\* prev left of the line, curr right of it, and no crossing detected
C18_Witness ==
    /\ last.op = "detect_line_crossing"
    /\ get_point_side_of_line(last.prev_point, last.line) = "left"
    /\ get_point_side_of_line(last.curr_point, last.line) = "right"
    /\ last.ret = "None"

\* C19: with a degenerate line, (x1,y1) = (x2,y2), detect_line_crossing returns
\* None for every pair of points, and a call of the processor detects nothing,
\* returns None without raising, writes no row and leaves the debounce state
\* alone, while it stores the position of the detection.
C19_DegenerateLineNeverCrosses ==
    [][(Processed /\ Degenerate(config.line)) =>
        /\ \A p \in Points, q \in Points :
              detect_line_crossing(p, q, config.line) = "None"
        /\ last'.direction = "None"
        /\ last'.outcome \in {"first", "no_crossing"}
        /\ last'.ret = {} /\ last'.persisted = {} /\ ~last'.raised
        /\ db_rows' = db_rows
        /\ track_state' = track_state
        /\ last'.track_id \in DOMAIN track_positions'
        /\ track_positions'[last'.track_id]
              = Position(last'.x, last'.y, last'.timestamp)]_vars

C19_Witness ==
    /\ last.op = "process_person_centroid"
    /\ Degenerate(config.line)
    /\ last.outcome = "no_crossing"
    /\ last.x = F(1)
    /\ last.timestamp = 2
    /\ track_positions[last.track_id] = Position(F(1), F(5), 2)

\* a start of a camera that is neither registered nor has a live worker
StartOfStopped ==
    /\ last' # last
    /\ last'.op = "start_entrance_polling"
    /\ last'.before_registered = {}
    /\ last'.before_live = {}

\* the start that follows a start of the same stopped camera, with no other
\* start or stop between the two
SecondStart ==
    /\ last' # last
    /\ last'.op = "start_entrance_polling"
    /\ last'.again

\* C20: two calls of start_entrance_polling in a row for a stopped camera with
\* an enabled configuration leave exactly one live polling thread: the first
\* call registers a new thread with the stop flag False and launches it, the
\* second call launches nothing and leaves the registration and the stop flag
\* as they are, and afterwards the one live thread of the camera is the
\* registered one.
C20_SecondStartIsNoOp ==
    [][/\ (StartOfStopped /\ camera_analytics[last'.camera_id] = "enabled") =>
            /\ last'.launched
            /\ entrance_polling_threads'[last'.camera_id] \notin DOMAIN threads
            /\ LiveWorkers(threads', last'.camera_id)
                   = {entrance_polling_threads'[last'.camera_id]}
            /\ thread_control'[last'.camera_id] = FALSE
       /\ (SecondStart /\ camera_analytics[last'.camera_id] = "enabled") =>
            /\ ~last'.launched
            /\ threads' = threads
            /\ entrance_polling_threads' = entrance_polling_threads
            /\ thread_control' = thread_control
            /\ thread_control'[last'.camera_id] = FALSE
            /\ LiveWorkers(threads', last'.camera_id)
                   = {entrance_polling_threads'[last'.camera_id]}]_vars

C20_Witness ==
    /\ last.op = "start_entrance_polling"
    /\ last.again
    /\ ~last.launched
    /\ camera_analytics[last.camera_id] = "enabled"
    /\ last.before_live = {entrance_polling_threads[last.camera_id]}
    /\ threads[entrance_polling_threads[last.camera_id]].pc = "fetch"
    /\ Cardinality(DOMAIN threads) = 1

\* a stop of a camera that has no registered thread
StopOfUnregistered ==
    /\ last' # last
    /\ last'.op = "stop_entrance_polling"
    /\ last'.before_registered = {}

\* C21: stop_entrance_polling for a camera without a registered thread changes
\* nothing: the registrations, the stop flags and the threads of every camera,
\* alive or not, are as before; the same holds for a stop that follows a stop
\* of the same camera, so that two stops in a row leave what one leaves.
C21_StopUnregisteredIsNoOp ==
    [][StopOfUnregistered =>
        /\ entrance_polling_threads' = entrance_polling_threads
        /\ thread_control' = thread_control
        /\ threads' = threads
        /\ \A c \in PolledCameras :
              LiveWorkers(threads', c) = LiveWorkers(threads, c)]_vars

C21_Witness ==
    /\ last.op = "stop_entrance_polling"
    /\ last.before_registered = {}
    /\ last.before_control = {TRUE}
    /\ last.before_live # {}
    /\ thread_control[last.camera_id] = TRUE

StatusCall ==
    /\ last' # last
    /\ last'.op = "get_entrance_tracking_status"

\* C23: get_entrance_tracking_status reports polling_running exactly when the
\* camera has a registered thread, and thread_alive exactly when it has one
\* and that thread is alive; a registered thread that has ended is reported
\* as polling_running without thread_alive.
C23_StatusReportsBoth ==
    [][StatusCall =>
        LET c == last'.camera_id
            registered == c \in DOMAIN entrance_polling_threads
        IN  /\ last'.ret.polling_running <=> registered
            /\ last'.ret.thread_alive <=>
                   (registered /\ threads[entrance_polling_threads[c]].pc # "done")]_vars

C23_Witness ==
    /\ last.op = "get_entrance_tracking_status"
    /\ last.ret.polling_running
    /\ ~last.ret.thread_alive
    /\ last.camera_id \in DOMAIN entrance_polling_threads
    /\ threads[entrance_polling_threads[last.camera_id]].pc = "done"

\* the registration, the stop flag and the live threads of camera c are the
\* same after the step
SameControl(c) ==
    /\ Get(entrance_polling_threads', c) = Get(entrance_polling_threads, c)
    /\ Get(thread_control', c) = Get(thread_control, c)
    /\ LiveWorkers(threads', c) = LiveWorkers(threads, c)

StartOrStopCall ==
    /\ last' # last
    /\ last'.op \in {"start_entrance_polling", "stop_entrance_polling"}

\* thread t takes a step of polling_loop
WorkerStep(t) ==
    /\ t \in DOMAIN threads
    /\ threads'[t] # threads[t]

\* C24: a start or a stop of camera c1 leaves the registration, the stop flag
\* and the live threads of every other camera as they are, and so does every
\* step of a thread of c1, the steps in which it ends included.
C24_OtherCamerasUntouched ==
    [][/\ StartOrStopCall =>
            \A c2 \in PolledCameras \ {last'.camera_id} : SameControl(c2)
       /\ \A t \in DOMAIN threads : WorkerStep(t) =>
            \A c2 \in PolledCameras \ {threads[t].camera_id} : SameControl(c2)]_vars

C24_Witness ==
    /\ last.op = "stop_entrance_polling"
    /\ last.camera_id = 1
    /\ last.before_registered # {}
    /\ \E t \in DOMAIN threads : threads[t].camera_id = 1 /\ threads[t].pc = "done"
    /\ 1 \notin DOMAIN thread_control
    /\ 2 \in DOMAIN entrance_polling_threads
    /\ thread_control[2] = FALSE
    /\ threads[entrance_polling_threads[2]].pc = "fetch"

\* the positions of a thread inside the while loop of polling_loop
InLoop(thread) == thread.pc \in {"while", "fetch", "sleep", "get", "process"}

\* C26: a failed fetch does not end the polling loop: the thread sleeps, is
\* alive and evaluates the while condition again; a thread leaves the loop
\* only from the while condition, and only when the camera's stop flag is set.
C26_FailedFetchKeepsPolling ==
    [][\A t \in DOMAIN threads : WorkerStep(t) =>
        /\ threads[t].pc = "sleep" =>
               threads'[t].pc = "while" /\ Alive(threads'[t])
        /\ (InLoop(threads[t]) /\ ~InLoop(threads'[t])) =>
               /\ threads[t].pc = "while"
               /\ threads[t].camera_id \in DOMAIN thread_control
               /\ thread_control[threads[t].camera_id]]_vars

\* a thread sleeps after a failed fetch although its camera has been stopped
C26_Witness ==
    \E t \in DOMAIN threads :
        /\ threads[t].pc = "sleep"
        /\ Alive(threads[t])
        /\ threads[t].camera_id \notin DOMAIN entrance_polling_threads
        /\ thread_control[threads[t].camera_id] = TRUE

\* a call of start_entrance_polling returns, made by the start route or by
\* the configuration route
StartReturns ==
    /\ last' # last
    /\ \/ last'.op = "start_entrance_polling"
       \/ last'.op = "update_entrance_config" /\ last'.started

\* C30: when start_entrance_polling returns for a camera whose row is active
\* and enabled and has a valid line, the camera has a live polling thread.
C30_StartLeavesLiveWorker ==
    [][(StartReturns /\ camera_analytics'[last'.camera_id] = "enabled") =>
        LiveWorkers(threads', last'.camera_id) # {}]_vars

\* the configuration route has started polling for an enabled camera whose
\* registered thread had ended, and no thread of the camera is alive
C30_Witness ==
    /\ last.op = "update_entrance_config"
    /\ last.started
    /\ camera_analytics[last.camera_id] = "enabled"
    /\ last.camera_id \in DOMAIN entrance_polling_threads
    /\ threads[entrance_polling_threads[last.camera_id]].pc = "done"
    /\ LiveWorkers(threads, last.camera_id) = {}

\* C28: the detections of every response a polling thread receives are
\* processed with the line, direction filter and entrance_side that the
\* camera's row holds when the response arrives.
C28_CurrentConfigUsed ==
    [][\A t \in DOMAIN threads :
        (WorkerStep(t) /\ threads[t].pc = "fetch" /\ threads'[t].pc = "get") =>
            threads[t].line_config = {camera_config[threads[t].camera_id]}]_vars

\* after the configuration route has changed the direction filter of a camera
\* that stays enabled, its thread processes a detection with the old filter
C28_Witness ==
    /\ last.op = "update_entrance_config"
    /\ last.before_registered # {}
    /\ camera_analytics[last.camera_id] = "enabled"
    /\ camera_config[last.camera_id].direction = "in"
    /\ \E t \in DOMAIN threads :
          /\ threads[t].camera_id = last.camera_id
          /\ threads[t].pc = "process"
          /\ threads[t].line_config = {ScenarioConfig}

\* C22: once a camera is stopped and not started again, so that it stays
\* without a registration, every thread created for it ends.
C22_StoppedWorkersEnd ==
    \A c \in PolledCameras :
        <>[](c \notin DOMAIN entrance_polling_threads)
            => <>[](LiveWorkers(threads, c) = {})

\* a stopped camera whose first thread has ended and deleted the stop flag,
\* while its second thread is in the loop
C22_Witness ==
    \E c \in PolledCameras :
        /\ last.op = "stop_entrance_polling"
        /\ last.camera_id = c
        /\ c \notin DOMAIN entrance_polling_threads
        /\ c \notin DOMAIN thread_control
        /\ \E t \in DOMAIN threads : threads[t].camera_id = c /\ threads[t].pc = "done"
        /\ \E t \in DOMAIN threads : threads[t].camera_id = c /\ threads[t].pc = "fetch"

\* the track of the detection that thread t has at hand
TrackAtHand(t) ==
    CHOOSE k \in threads[t].detections[threads[t].i].track_id : TRUE

LeavesBatch(t) ==
    /\ threads[t].pc \in {"get", "process"}
    /\ threads'[t].pc \notin {"get", "process"}

\* C29: the well-formed detections of a response are passed to
\* process_person_centroid one after the other in the order of the response,
\* and the thread goes back to the while only after the last of them, also
\* when the camera is stopped meanwhile or a call has failed.
C29_WholeBatchProcessed ==
    [][\A t \in DOMAIN threads : WorkerStep(t) =>
        /\ (threads[t].pc = "process" /\ threads'[t].pc = "get") =>
               /\ threads'[t].detections = threads[t].detections
               /\ threads'[t].i = NextIndex(threads[t].detections, threads[t].i + 1)
        /\ LeavesBatch(t) =>
               NextIndex(threads[t].detections, threads[t].i + 1)
                   > Len(threads[t].detections)]_vars

\* twice the signed area of the triangle a, b, c, in exact arithmetic
Orient(ax, ay, bx, by, cx, cy) == (bx - ax) * (cy - ay) - (by - ay) * (cx - ax)

\* the move from prev_point to curr_point passes from one side of the line to
\* the other between the endpoints of the segment, or through an endpoint
CrossesSegment(prev_point, curr_point, line) ==
    LET side_prev == Orient(line.x1, line.y1, line.x2, line.y2,
                            prev_point.x, prev_point.y)
        side_curr == Orient(line.x1, line.y1, line.x2, line.y2,
                            curr_point.x, curr_point.y)
        side_1 == Orient(prev_point.x, prev_point.y, curr_point.x, curr_point.y,
                         line.x1, line.y1)
        side_2 == Orient(prev_point.x, prev_point.y, curr_point.x, curr_point.y,
                         line.x2, line.y2)
    IN  /\ side_prev * side_curr < 0
        /\ side_1 * side_2 <= 0

\* C27: detect_line_crossing returns IN or OUT only for a move that crosses
\* the segment from (x1,y1) to (x2,y2); a move that changes side of the line
\* through the two points beyond the segment's endpoints returns None.
C27_OnlySegmentCrossings ==
    (last.op = "detect_line_crossing" /\ last.ret \in {"IN", "OUT"}) =>
        CrossesSegment(last.prev_point, last.curr_point, last.line)

\* a move reported as a crossing that passes the line beyond both endpoints
C27_Witness ==
    /\ last.op = "detect_line_crossing"
    /\ last.ret = "OUT"
    /\ last.line = [x1 |-> -1, y1 |-> -1, x2 |-> 1, y2 |-> 1]
    /\ last.prev_point = [x |-> -1, y |-> F(1)]
    /\ last.curr_point = [x |-> F(1), y |-> -1]
    /\ ~CrossesSegment(last.prev_point, last.curr_point, last.line)

\* the threads of camera c that are inside the while loop of polling_loop
Polling(c) ==
    {t \in DOMAIN threads : threads[t].camera_id = c /\ InLoop(threads[t])}

\* C31: at every time at most one thread of a camera is inside the polling
\* loop, whatever starts and stops have been called.
C31_OneWorkerPerCamera ==
    \A c \in PolledCameras : Cardinality(Polling(c)) <= 1

\* after a stop and a start the thread of the first start and the thread of
\* the second are both fetching, and the stop flag is False
C31_Witness ==
    \E c \in PolledCameras :
        /\ last.op = "start_entrance_polling"
        /\ last.camera_id = c
        /\ last.launched
        /\ Get(thread_control, c) = {FALSE}
        /\ \E t \in Polling(c), u \in Polling(c) :
              /\ t # u
              /\ threads[t].pc = "fetch"
              /\ threads[u].pc = "fetch"

\* C32: for one track without a reset, calls applied one at a time with
\* timestamps in any order: the stored state is always the last accepted
\* crossing (an accepted call stores itself, a rejected call stores nothing),
\* and a call accepted after it has the other direction and a timestamp at
\* least MIN_CROSS_INTERVAL later; so any two consecutive accepted crossings
\* differ in direction and are at least MIN_CROSS_INTERVAL apart.
C32_ConsecutiveAcceptedAlternate ==
    [][last'.op = "should_count_crossing"
        => /\ (last'.ret /\ Counted) => track_state'[last'.track_id] = StoredNow
           /\ ~(last'.ret /\ Counted) => track_state' = track_state
           /\ OthersUnchanged(last'.track_id)
           /\ (last'.ret /\ last'.track_id \in DOMAIN track_state)
                 => /\ Upper(last'.direction)
                         # track_state[last'.track_id].last_direction
                    /\ last'.current_time
                         - track_state[last'.track_id].last_cross_time
                         >= MIN_CROSS_INTERVAL]_vars

\* a crossing stored at the latest time is followed by a call with an earlier
\* timestamp and the other direction, which is rejected and stores nothing
C32_Witness ==
    /\ last.op = "should_count_crossing"
    /\ last.ret = FALSE
    /\ \E b \in last.before :
          /\ b.last_cross_time = MaxTime
          /\ last.current_time = 0
          /\ Upper(last.direction) \in {"IN", "OUT"} \ {b.last_direction}
          /\ track_state[last.track_id] = b

\* C33: with one line configuration whose direction_filter is "in" or "out"
\* and no reset of the debouncer, the calls of process_person_centroid for one
\* track emit at most one event, whatever the positions and timestamps: a
\* crossing the filter discards leaves track_state alone, and a crossing that
\* gets to the debouncer once the track has a state has the stored direction
\* and is rejected.
C33_OneEventPerTrack ==
    [][(Processed /\ config.direction \in {"in", "out"})
        => /\ last'.outcome \in {"first", "no_crossing", "filtered"}
                 => track_state' = track_state
           /\ (last'.outcome \in {"debounced", "event", "db_error"}
                    /\ last'.track_id \in DOMAIN track_state)
                 => /\ last'.direction
                         = track_state[last'.track_id].last_direction
                    /\ last'.outcome = "debounced"
                    /\ track_state' = track_state
           /\ last'.outcome \in {"event", "db_error"}
                 => /\ last'.track_id \notin DOMAIN track_state
                    /\ last'.track_id \in DOMAIN track_state'
                    /\ db_rows = 0
           /\ db_rows' <= 1]_vars

\* under filter "in" the track was counted at time 0 and crosses the counted
\* way again a full interval later: the crossing is rejected as the same
\* direction and the one row stays the only one
C33_Witness ==
    /\ last.op = "process_person_centroid"
    /\ config.direction = "in"
    /\ last.outcome = "debounced"
    /\ last.event_type = "enter"
    /\ last.timestamp = MIN_CROSS_INTERVAL
    /\ last.track_id \in DOMAIN track_state
    /\ track_state[last.track_id] = NewState(last.direction, 0)
    /\ db_rows = 1

\* a call of stop_entrance_polling: the threads are where they were
StopCall ==
    /\ last'.op = "stop_entrance_polling"
    /\ threads' = threads

\* thread t leaves the while loop or takes a step of its finally clause
ExitStep(t) ==
    /\ WorkerStep(t)
    /\ threads'[t].pc \in {"finally", "del", "done"}

\* C36: a call of stop_entrance_polling and every step in which a polling
\* thread ends leave track_positions, track_state and the rows of the table
\* as they are; no start, stop or thread step removes a track's stored
\* position; and a thread reads as previous position of a detection what the
\* store holds. So after a stop and a start the first detection of a known
\* track is compared with the position stored before.
C36_StopKeepsStores ==
    [][/\ (StopCall \/ \E t \in DOMAIN threads : ExitStep(t))
            => UNCHANGED <<track_positions, track_state, db_rows>>
       /\ DOMAIN track_positions \subseteq DOMAIN track_positions'
       /\ db_rows <= db_rows'
       /\ \A t \in DOMAIN threads :
             (WorkerStep(t) /\ threads[t].pc = "get")
                => threads'[t].prev_position
                     = Get(track_positions, TrackAtHand(t))]_vars

\* camera c was stopped and its thread has ended; c was started again with
\* nothing left of the first run, and the new thread, given a person on the
\* right, has read the position on the left that is in the store
C36_Witness ==
    \E c \in PolledCameras :
        /\ last.op = "start_entrance_polling"
        /\ last.camera_id = c
        /\ last.launched
        /\ last.before_live = {}
        /\ last.before_control = {}
        /\ \E t \in DOMAIN threads, u \in DOMAIN threads :
              /\ threads[t].camera_id = c
              /\ threads[t].pc = "done"
              /\ threads[u].camera_id = c
              /\ threads[u].pc = "process"
              /\ threads[u].detections = <<DetRight>>
              /\ threads[u].prev_position
                    = {Position(Centroid(DetLeft.bbox).x,
                                Centroid(DetLeft.bbox).y, DetLeft.timestamp)}
              /\ threads[u].prev_position = Get(track_positions, 7)

\* the positions that the detections of camera c give
CameraPositions(c) ==
    {Position(Centroid(b[i].bbox).x, Centroid(b[i].bbox).y, b[i].timestamp) :
        b \in CameraBatches(c), i \in {1}}

\* C35: a call of process_person_centroid for camera c that accepts a
\* crossing (it writes a row or the debounce state) has compared the
\* detection with a previous position that a detection of camera c gave, never
\* with one that the thread of another camera stored under the same track_id.
C35_EventFromOwnPositions ==
    [][\A t \in DOMAIN threads :
        (/\ WorkerStep(t)
         /\ threads[t].pc = "process"
         /\ (db_rows' # db_rows \/ track_state' # track_state))
            => threads[t].prev_position
                 \subseteq CameraPositions(threads[t].camera_id)]_vars

\* a row has been written although neither camera has seen its person move,
\* and the stored position of track 7 is the one camera 2 reported
C35_Witness ==
    /\ db_rows = 1
    /\ 7 \in DOMAIN track_state
    /\ track_state[7] = NewState("OUT", DetRight.timestamp)
    /\ Get(track_positions, 7) = CameraPositions(2)

\* the calls of should_count_crossing that have returned True
AcceptedCalls ==
    {t \in DOMAIN threads : threads[t].pc = "returned" /\ threads[t].ret = {TRUE}}

\* C34: when the threads call should_count_crossing at the same time for one
\* track, reading, deciding and writing are one step of each call: two calls
\* in the same direction, or less than MIN_CROSS_INTERVAL apart, never both
\* return True.
C34_DebounceAtomic ==
    \A t \in AcceptedCalls : \A u \in AcceptedCalls \ {t} :
        /\ Upper(threads[t].direction) # Upper(threads[u].direction)
        /\ \/ threads[t].current_time - threads[u].current_time >= MIN_CROSS_INTERVAL
           \/ threads[u].current_time - threads[t].current_time >= MIN_CROSS_INTERVAL

\* two calls with the same direction and the same timestamp have both
\* returned True
C34_Witness ==
    \E t \in AcceptedCalls : \E u \in AcceptedCalls \ {t} :
        /\ Upper(threads[t].direction) = Upper(threads[u].direction)
        /\ threads[t].current_time = threads[u].current_time

====
